---- MODULE Spec2Model ----
(***************************************************************************)
(* Model of the Worm lexer (src/lexer.py), its command-line entry point    *)
(* (main in src/lexer.py) and the web playground (src/main.py).            *)
(*                                                                         *)
(* Text is a sequence of one-character strings.  Offsets are 0-based as in *)
(* Python: the character at offset p of s is s[p + 1].  A rule matcher     *)
(* returns the end offset of its match at p, or NoMatch.                   *)
(***************************************************************************)
EXTENDS Integers, Sequences, FiniteSets, TLC

VARIABLES
    input_text,        \* Lexer.input_text (CLI: the file's text)
    include_comments,  \* Lexer.include_comments
    pc,                \* position of the run: "new", "scan", "done", "raised", ...
    token_match,       \* the match the loop of tokenize is about to handle
    tokens,            \* the local list `tokens` of tokenize
    line_num,          \* the local line_num of tokenize
    line_start,        \* the local line_start of tokenize
    matches,           \* the matches finditer has yielded so far, in order
    self_tokens,       \* Lexer.tokens
    args,              \* CLI: the parsed arguments, args.patterns and args.comments
    file,              \* CLI: the file at args.file, whether it exists and its bytes
    exit_status,       \* CLI: process exit status, "none" while running
    stdout,            \* CLI: the sections printed so far
    session_state,     \* web: st.session_state, a dictionary
    uploaded_file,     \* web: the file held by the file uploader, if any
    code_input,        \* web: the text returned by the st_ace editor
    panel,             \* web: what the results panel shows in this render
    lexer_built        \* web: a Lexer was constructed in this render

vars == << input_text, include_comments, pc, token_match, tokens, line_num, line_start,
           matches, self_tokens, args, file, exit_status, stdout,
           session_state, uploaded_file, code_input, panel, lexer_built >>

cliVars == << args, file, exit_status, stdout >>
webVars == << session_state, uploaded_file, code_input, panel, lexer_built >>

NoMatch == 0 - 1

----------------------------------------------------------------------------
(* Character classes of Python's re module on str patterns.                *)

Lower == {"a", "b", "c", "d", "e", "f", "g", "h", "i", "j", "k", "l", "m",
          "n", "o", "p", "q", "r", "s", "t", "u", "v", "w", "x", "y", "z"}
Upper == {"A", "B", "C", "D", "E", "F", "G", "H", "I", "J", "K", "L", "M",
          "N", "O", "P", "Q", "R", "S", "T", "U", "V", "W", "X", "Y", "Z"}
Digit == {"0", "1", "2", "3", "4", "5", "6", "7", "8", "9"}

\* [a-zA-Z_]
IsIdStart(c) == c \in Lower \cup Upper \cup {"_"}
\* [a-zA-Z0-9_]
IsIdChar(c) == c \in Lower \cup Upper \cup Digit \cup {"_"}
\* \d
IsDigit(c) == c \in Digit
\* \w : on str patterns also the non-ASCII letters
IsWord(c) == IsIdChar(c) \/ c = "é"
\* \s
IsSpace(c) == c \in {" ", "\t", "\n", "\r", "\f"}
\* [^\n] and .
NotLF(c) == c # "\n"

----------------------------------------------------------------------------
(* Regular-expression primitives.                                          *)

\* the literal lit occurs in s at offset p
StartsWith(s, p, lit) ==
    /\ p + Len(lit) <= Len(s)
    /\ \A i \in 1..Len(lit) : s[p + i] = lit[i]

\* \b at offset p
WordBoundary(s, p) ==
    (p > 0 /\ IsWord(s[p])) # (p < Len(s) /\ IsWord(s[p + 1]))

\* (?<!\w) at offset p
NotAfterWord(s, p) == ~(p > 0 /\ IsWord(s[p]))

\* c is in the character class written class
InClass(class, c) ==
    CASE class = "\\s" -> IsSpace(c)
      [] class = "[^\\n]" -> NotLF(c)
      [] class = "[a-zA-Z0-9_]" -> IsIdChar(c)
      [] class = "\\w" -> IsWord(c)

\* greedy class* from offset p: the end of the longest run of characters
\* of the class
RunEnd(s, p, class) ==
    CHOOSE q \in p..Len(s) :
        /\ \A i \in (p + 1)..q : InClass(class, s[i])
        /\ q = Len(s) \/ ~InClass(class, s[q + 1])

\* s[p+1..q] is in the language of \d+(_?\d+)*
InDigitGroup(s, p, q) ==
    /\ q > p
    /\ IsDigit(s[p + 1])
    /\ \A i \in (p + 1)..q :
          IsDigit(s[i]) \/ (s[i] = "_" /\ i < q /\ IsDigit(s[i + 1]))

\* greedy \d+(_?\d+)* at offset p
DigitGroupEnd(s, p) ==
    LET ends == {q \in (p + 1)..Len(s) : InDigitGroup(s, p, q)}
    IN  IF ends = {} THEN NoMatch
        ELSE CHOOSE q \in ends : \A r \in ends : r <= q

\* open [\s\S]*? close, non-greedy: up to the first close after the opener
DelimitedEnd(s, p, delim) ==
    LET n == Len(delim)
        closers == {q \in (p + n)..Len(s) : StartsWith(s, q, delim)}
    IN  IF ~StartsWith(s, p, delim) \/ closers = {} THEN NoMatch
        ELSE (CHOOSE q \in closers : \A r \in closers : q <= r) + n

\* (?:\\.|[^q\\])*q from offset i, after the opening quote q
RECURSIVE QuotedEnd(_, _, _)
QuotedEnd(s, i, q) ==
    IF i >= Len(s) THEN NoMatch
    ELSE IF s[i + 1] = q THEN i + 1
    ELSE IF s[i + 1] = "\\"
         THEN IF i + 1 < Len(s) /\ NotLF(s[i + 2])
              THEN QuotedEnd(s, i + 2, q)
              ELSE NoMatch
    ELSE QuotedEnd(s, i + 1, q)

----------------------------------------------------------------------------
(* The pattern catalog, in insertion order.                                *)

\* a rule whose pattern has a matcher of its own below
Special(name) == [name |-> name, form |-> name, text |-> << >>]
\* a rule whose pattern is \btext\b
Word(name, text) == [name |-> name, form |-> "word", text |-> text]
\* a rule whose pattern is the escaped literal text
Literal(name, text) == [name |-> name, form |-> "literal", text |-> text]

patterns ==
    << Special("NEWLINE"),
       Special("WHITESPACE"),
       Special("SINGLE_LINE_COMMENT"),
       Special("MULTI_LINE_COMMENT"),
       Special("FLOAT"),
       Special("INTEGER"),
       Word("TYPE_INT", <<":", "i", "n", "t">>),
       Word("TYPE_CHAR", <<":", "c", "h", "a", "r">>),
       Word("TYPE_FLOAT", <<":", "f", "l", "o", "a", "t">>),
       Word("TYPE_STRING", <<":", "s", "t", "r">>),
       Word("TYPE_LIST", <<":", "l", "i", "s", "t">>),
       Word("TYPE_DICT", <<":", "d", "i", "c", "t">>),
       Word("TYPE_SET", <<":", "s", "e", "t">>),
       Word("TYPE_TUPLE", <<":", "t", "u", "p", "l", "e">>),
       Word("TYPE_BOOL", <<":", "b", "o", "o", "l">>),
       Word("IF", <<"i", "f">>),
       Word("ELSEIF", <<"e", "l", "i", "f">>),
       Word("ELSE", <<"e", "l", "s", "e">>),
       Word("WHILE", <<"w", "h", "i", "l", "e">>),
       Word("FOR", <<"f", "o", "r">>),
       Word("DEFINE", <<"d", "e", "f">>),
       Word("RETURN", <<"r", "e", "t", "u", "r", "n">>),
       Word("CLASS", <<"c", "l", "a", "s", "s">>),
       Word("IMPORT", <<"i", "m", "p", "o", "r", "t">>),
       Word("FROM", <<"f", "r", "o", "m">>),
       Word("AS", <<"a", "s">>),
       Word("TRY", <<"t", "r", "y">>),
       Word("EXCEPT", <<"e", "x", "c", "e", "p", "t">>),
       Word("FINALLY", <<"f", "i", "n", "a", "l", "l", "y">>),
       Word("RAISE", <<"r", "a", "i", "s", "e">>),
       Word("WITH", <<"w", "i", "t", "h">>),
       Word("BREAK", <<"b", "r", "e", "a", "k">>),
       Word("CONTINUE", <<"c", "o", "n", "t", "i", "n", "u", "e">>),
       Word("NOTIN", <<"n", "o", "t", " ", "i", "n">>),
       Word("IN", <<"i", "n">>),
       Word("IS", <<"i", "s">>),
       Word("TRUE", <<"T", "r", "u", "e">>),
       Word("FALSE", <<"F", "a", "l", "s", "e">>),
       Word("NULL", <<"N", "o", "n", "e">>),
       Word("NOT", <<"n", "o", "t">>),
       Word("AND", <<"a", "n", "d">>),
       Word("OR", <<"o", "r">>),
       Special("IDENTIFIER"),
       Literal("ARROW", <<"-", ">">>),
       Literal("LAMBDA_ARROW", <<"=", ">">>),
       Literal("BITW_AND", <<"&">>),
       Literal("BITW_OR", <<"|">>),
       Literal("BITW_XOR", <<"^">>),
       Literal("BITW_NOT", <<"~">>),
       Literal("BITW_LEFT_SHIFT", <<"<", "<">>),
       Literal("BITW_RIGHT_SHIFT", <<">", ">">>),
       Literal("EQUALS", <<"=", "=">>),
       Literal("NOT_EQUALS", <<"!", "=">>),
       Literal("LESS_EQUAL", <<"<", "=">>),
       Literal("GREATER_EQUAL", <<">", "=">>),
       Literal("LESS_THAN", <<"<">>),
       Literal("GREATER_THAN", <<">">>),
       Literal("ASSIGN", <<"=">>),
       Literal("PLUS_ASSIGN", <<"+", "=">>),
       Literal("MINUS_ASSIGN", <<"-", "=">>),
       Literal("POWER_ASSIGN", <<"*", "*", "=">>),
       Literal("FLOOR_DIV_ASSIGN", <<"/", "/", "=">>),
       Literal("MULT_ASSIGN", <<"*", "=">>),
       Literal("DIV_ASSIGN", <<"/", "=">>),
       Literal("MOD_ASSIGN", <<"%", "=">>),
       Literal("PLUS", <<"+">>),
       Literal("MINUS", <<"-">>),
       Literal("POWER", <<"*", "*">>),
       Literal("FLOOR_DIV", <<"/", "/">>),
       Literal("MULTIPLY", <<"*">>),
       Literal("DIVIDE", <<"/">>),
       Literal("MODULO", <<"%">>),
       Literal("LEFT_PAREN", <<"(">>),
       Literal("RIGHT_PAREN", <<")">>),
       Literal("LEFT_BRACKET", <<"[">>),
       Literal("RIGHT_BRACKET", <<"]">>),
       Literal("LEFT_BRACE", <<"{">>),
       Literal("RIGHT_BRACE", <<"}">>),
       Literal("COMMA", <<",">>),
       Literal("DOT", <<".">>),
       Literal("COLON", <<":">>),
       Literal("SEMICOLON", <<";">>),
       Special("MULTI_LINE_STRING"),
       Special("STRING"),
       Literal("EXCLAIM", <<"!">>),
       Literal("NULL_COALESCING", <<"?", "?">>),
       Literal("QUESTION_MARK", <<"?">>) >>

----------------------------------------------------------------------------
(* One matcher per rule of the catalog.                                    *)

\* \r\n|\n|\r
NEWLINE(s, p) ==
    IF StartsWith(s, p, <<"\r", "\n">>) THEN p + 2
    ELSE IF StartsWith(s, p, <<"\n">>) \/ StartsWith(s, p, <<"\r">>) THEN p + 1
    ELSE NoMatch

\* [\s]+
WHITESPACE(s, p) ==
    IF IsSpace(s[p + 1]) THEN RunEnd(s, p, "\\s") ELSE NoMatch

\* a comment rule that stops before the LF: #[^\n]*
SINGLE_LINE_COMMENT_without_newline(s, p) ==
    IF s[p + 1] # "#" THEN NoMatch ELSE RunEnd(s, p + 1, "[^\\n]")

\* #[^\n]*(?:\n|$)
SINGLE_LINE_COMMENT(s, p) ==
    IF s[p + 1] # "#" THEN NoMatch
    ELSE LET q == RunEnd(s, p + 1, "[^\\n]")
         IN  IF q < Len(s) THEN q + 1 ELSE q

\* ~~[\s\S]*?~~
MULTI_LINE_COMMENT(s, p) == DelimitedEnd(s, p, <<"~", "~">>)

\* (?<!\w)-?(\d+(_?\d+)*)?\.\d+(_?\d+)*
FLOAT(s, p) ==
    LET a == IF s[p + 1] = "-" THEN p + 1 ELSE p
        i == DigitGroupEnd(s, a)
        b == IF i = NoMatch THEN a ELSE i
    IN  IF NotAfterWord(s, p) /\ StartsWith(s, b, <<".">>)
        THEN DigitGroupEnd(s, b + 1)
        ELSE NoMatch

\* (?<!\w)-?\d+(_?\d+)*
INTEGER(s, p) ==
    LET a == IF s[p + 1] = "-" THEN p + 1 ELSE p
    IN  IF NotAfterWord(s, p) THEN DigitGroupEnd(s, a) ELSE NoMatch

\* a keyword rule without the closing boundary: \bword
WordRule_unbounded(s, p, word) ==
    IF WordBoundary(s, p) /\ StartsWith(s, p, word)
    THEN p + Len(word)
    ELSE NoMatch

\* \bword\b, for the keyword, type, literal and logical-operator rules
WordRule(s, p, word) ==
    IF /\ WordBoundary(s, p)
       /\ StartsWith(s, p, word)
       /\ WordBoundary(s, p + Len(word))
    THEN p + Len(word)
    ELSE NoMatch

\* \b[a-zA-Z_][a-zA-Z0-9_]*\b
IDENTIFIER(s, p) ==
    IF WordBoundary(s, p) /\ IsIdStart(s[p + 1])
    THEN LET q == RunEnd(s, p + 1, "[a-zA-Z0-9_]")
         IN  IF WordBoundary(s, q) THEN q ELSE NoMatch
    ELSE NoMatch

\* an operator or delimiter rule: the literal text
LiteralRule(s, p, lit) ==
    IF StartsWith(s, p, lit) THEN p + Len(lit) ELSE NoMatch

\* """[\s\S]*?"""|'''[\s\S]*?'''
MULTI_LINE_STRING(s, p) ==
    IF DelimitedEnd(s, p, <<"\"", "\"", "\"">>) # NoMatch
    THEN DelimitedEnd(s, p, <<"\"", "\"", "\"">>)
    ELSE DelimitedEnd(s, p, <<"'", "'", "'">>)

\* \"(?:\\.|[^"\\])*\"|\'(?:\\.|[^\'\\])*\'
STRING_RULE(s, p) ==
    IF s[p + 1] \in {"\"", "'"} THEN QuotedEnd(s, p + 1, s[p + 1]) ELSE NoMatch

\* (?P<INVALID>.)
INVALID(s, p) == IF NotLF(s[p + 1]) THEN p + 1 ELSE NoMatch

\* the end of the match of a rule of the alternation at offset p < Len(s)
RuleEnd(rule, s, p) ==
    CASE rule.form = "word" -> WordRule(s, p, rule.text)
      [] rule.form = "literal" -> LiteralRule(s, p, rule.text)
      [] rule.form = "NEWLINE" -> NEWLINE(s, p)
      [] rule.form = "WHITESPACE" -> WHITESPACE(s, p)
      [] rule.form = "SINGLE_LINE_COMMENT" -> SINGLE_LINE_COMMENT(s, p)
      [] rule.form = "MULTI_LINE_COMMENT" -> MULTI_LINE_COMMENT(s, p)
      [] rule.form = "FLOAT" -> FLOAT(s, p)
      [] rule.form = "INTEGER" -> INTEGER(s, p)
      [] rule.form = "IDENTIFIER" -> IDENTIFIER(s, p)
      [] rule.form = "MULTI_LINE_STRING" -> MULTI_LINE_STRING(s, p)
      [] rule.form = "STRING" -> STRING_RULE(s, p)
      [] rule.form = "INVALID" -> INVALID(s, p)

\* the sequence in reverse order
Reversed(seq) == [i \in 1..Len(seq) |-> seq[Len(seq) + 1 - i]]

\* an alternation built from the catalog in reverse order
pattern_strings_reversed == Reversed(patterns) \o << Special("INVALID") >>

\* the alternation: all catalog rules in order, then the catch-all
pattern_strings == patterns \o << Special("INVALID") >>

\* the number of the first alternative that matches at offset p, 0 when
\* none does: alternation takes the leftmost alternative that matches
FirstRule(alts, s, p) ==
    LET hits == {i \in 1..Len(alts) : RuleEnd(alts[i], s, p) # NoMatch}
    IN  IF hits = {} THEN 0
        ELSE CHOOSE i \in hits : \A j \in hits : i <= j

\* the match object of the alternative number i at offset p: lastgroup,
\* start() and end()
MatchOf(i, s, p) ==
    [kind |-> pattern_strings[i].name, start |-> p,
     end |-> RuleEnd(pattern_strings[i], s, p)]

\* what the iterator of finditer gives once no match is left
NoMoreMatches == [kind |-> "INVALID", start |-> NoMatch, end |-> NoMatch]

\* finditer: the leftmost match at or after offset p; i is the first
\* alternative that matches at p, 0 when none does
RECURSIVE NextMatch(_, _)
NextMatchFrom(i, s, p) ==
    IF i # 0 THEN MatchOf(i, s, p) ELSE NextMatch(s, p + 1)
NextMatch(s, p) ==
    IF p >= Len(s) THEN NoMoreMatches
    ELSE NextMatchFrom(FirstRule(pattern_strings, s, p), s, p)

\* match.group(): the matched text
Slice(s, a, b) == SubSeq(s, a + 1, b)

----------------------------------------------------------------------------
(* Lexer.tokenize: the body of the loop over the matches.                  *)

\* Token(type, value, line, column)
Token(type, value, line, column) ==
    [type |-> type, value |-> value, line |-> line, column |-> column]

\* text.count("\n")
count_lines(text) == Cardinality({i \in 1..Len(text) : text[i] = "\n"})

\* value.rfind("\n"): the 0-based offset of the last LF, -1 when there is none
rfind_newline(value) ==
    LET at == {i \in 1..Len(value) : value[i] = "\n"}
    IN  IF at = {} THEN 0 - 1
        ELSE (CHOOSE i \in at : \A j \in at : j <= i) - 1

\* the branch of the if/elif chain that a match of this kind and text takes
Branch(kind, value) ==
    CASE kind = "WHITESPACE" -> "whitespace"
      [] kind = "NEWLINE" -> "newline"
      [] kind = "INVALID" -> "invalid"
      [] kind = "MULTI_LINE_COMMENT" -> "multi_line_comment"
      [] kind = "STRING" /\ count_lines(value) > 0 -> "multi_line_string"
      [] OTHER -> "other"

\* if kind == "NEWLINE"
OnNewline(st, value, start_pos) ==
    [st EXCEPT !.line_num = @ + 1,
               !.line_start = start_pos + Len(value)]

\* an INVALID branch that drops the character instead of reporting it
OnInvalid_dropped(st, value, column) == st

\* elif kind == "INVALID"
OnInvalid(st, value, column) ==
    [st EXCEPT !.tokens = Append(@, Token("INVALID", value, st.line_num, column))]

\* the line bookkeeping after a lexeme that may span lines
AdvanceLines(st, value, start_pos) ==
    [st EXCEPT !.line_num = @ + count_lines(value),
               !.line_start = IF count_lines(value) > 0
                              THEN start_pos + rfind_newline(value) + 1
                              ELSE @]

\* a comment branch that keeps the line bookkeeping under the if
OnMultiLineComment_counted_when_included(st, kind, value, start_pos, column, ic) ==
    IF ic
    THEN AdvanceLines(
             [st EXCEPT !.tokens =
                  Append(@, Token(kind, value, st.line_num, column))],
             value, start_pos)
    ELSE st

\* elif kind == "MULTI_LINE_COMMENT"
OnMultiLineComment(st, kind, value, start_pos, column, ic) ==
    AdvanceLines(
        [st EXCEPT !.tokens = IF ic
                              THEN Append(@, Token(kind, value, st.line_num, column))
                              ELSE @],
        value, start_pos)

\* elif kind == "STRING" and lines_in_token > 0
OnMultiLineString(st, kind, value, start_pos, column) ==
    AdvanceLines(
        [st EXCEPT !.tokens = Append(@, Token(kind, value, st.line_num, column))],
        value, start_pos)

\* else
OnOther(st, kind, value, start_pos, column, ic) ==
    LET emitted ==
            IF kind # "SINGLE_LINE_COMMENT" \/ ic
            THEN [st EXCEPT !.tokens =
                      Append(@, Token(kind, value, st.line_num, column))]
            ELSE st
    IN  IF kind = "SINGLE_LINE_COMMENT"
        THEN [emitted EXCEPT !.line_num = @ + 1,
                             !.line_start = start_pos + Len(value)]
        ELSE emitted

\* one iteration of the loop: the locals after handling the match m of s
Body(st, s, m, ic) ==
    LET kind == m.kind
        value == Slice(s, m.start, m.end)
        start_pos == m.start
        column == start_pos - st.line_start + 1
        branch == Branch(kind, value)
    IN  CASE branch = "whitespace" -> st
          [] branch = "newline" -> OnNewline(st, value, start_pos)
          [] branch = "invalid" -> OnInvalid(st, value, column)
          [] branch = "multi_line_comment" ->
                 OnMultiLineComment(st, kind, value, start_pos, column, ic)
          [] branch = "multi_line_string" ->
                 OnMultiLineString(st, kind, value, start_pos, column)
          [] branch = "other" -> OnOther(st, kind, value, start_pos, column, ic)

\* the locals at the start of tokenize
StartLocals == [tokens |-> << >>, line_num |-> 1, line_start |-> 0]

\* the loop from the match m on, run to its end: the returned token list
RECURSIVE Scan(_, _, _, _)
Scan(st, s, m, ic) ==
    IF m.start = NoMatch THEN st.tokens
    ELSE Scan(Body(st, s, m, ic), s, NextMatch(s, m.end), ic)

\* Lexer(s, include_comments=ic).tokenize(), for a text the constructor accepts
Tokenize(s, ic) == Scan(StartLocals, s, NextMatch(s, 0), ic)

\* Lexer.__init__ raises IndexError: input_text[0] of an empty text
ConstructorRaises(s) == Len(s) = 0

----------------------------------------------------------------------------
(* Inputs: the presets of the web application and lexemes of the language. *)

\* 'print("Hello, Worm!");'
PresetHello ==
    << "p", "r", "i", "n", "t", "(", "\"", "H", "e", "l", "l", "o", ",",
      " ", "W", "o", "r", "m", "!", "\"", ")", ";" >>

\* 'result = 2 + 3 * 4;'
PresetMath ==
    << "r", "e", "s", "u", "l", "t", " ", "=", " ", "2", " ", "+", " ", "3",
      " ", "*", " ", "4", ";" >>

\* 'let x = 42;\nlet y = x + 8;'
PresetVars ==
    << "l", "e", "t", " ", "x", " ", "=", " ", "4", "2", ";", "\n", "l",
      "e", "t", " ", "y", " ", "=", " ", "x", " ", "+", " ", "8", ";" >>

\* 'for i in range(5) {\n    print(i);\n}'
PresetLoop ==
    << "f", "o", "r", " ", "i", " ", "i", "n", " ", "r", "a", "n", "g", "e",
      "(", "5", ")", " ", "{", "\n", " ", " ", " ", " ", "p", "r", "i", "n",
      "t", "(", "i", ")", ";", "\n", "}" >>

\* 'def add(a, b) {\n    return a + b;\n}'
PresetFunc ==
    << "d", "e", "f", " ", "a", "d", "d", "(", "a", ",", " ", "b", ")", " ",
      "{", "\n", " ", " ", " ", " ", "r", "e", "t", "u", "r", "n", " ", "a",
      " ", "+", " ", "b", ";", "\n", "}" >>

\* ''
PresetClear ==
    << >>

\* '# hello\nx = 1'
SampleComment ==
    << "#", " ", "h", "e", "l", "l", "o", "\n", "x", " ", "=", " ", "1" >>

\* '~~a\nb\nc~~\nx'
SampleMultiLineComment ==
    << "~", "~", "a", "\n", "b", "\n", "c", "~", "~", "\n", "x" >>

\* 'x **= 2'
SamplePowerAssign ==
    << "x", " ", "*", "*", "=", " ", "2" >>

\* 'a ?? b'
SampleNullCoalescing ==
    << "a", " ", "?", "?", " ", "b" >>

\* 'a not in b'
SampleNotIn ==
    << "a", " ", "n", "o", "t", " ", "i", "n", " ", "b" >>

\* 'x:int = 5;'
SampleTypeInt ==
    << "x", ":", "i", "n", "t", " ", "=", " ", "5", ";" >>

\* 'a = """p\nq""" b'
SampleTripleQuoted ==
    << "a", " ", "=", " ", "\"", "\"", "\"", "p", "\n", "q", "\"", "\"",
      "\"", " ", "b" >>

\* 'a = "p\nq" b'
SampleQuotedNewline ==
    << "a", " ", "=", " ", "\"", "p", "\n", "q", "\"", " ", "b" >>

\* 'a = 1 \nb = 2'
SampleTrailingSpace ==
    << "a", " ", "=", " ", "1", " ", "\n", "b", " ", "=", " ", "2" >>

\* 'a\n  \nb'
SampleIndentedBlank ==
    << "a", "\n", " ", " ", "\n", "b" >>

\* 'a $ -1.5 @'
SampleInvalid ==
    << "a", " ", "$", " ", "-", "1", ".", "5", " ", "@" >>

----------------------------------------------------------------------------
(* The lexer run, one match at a time.                                     *)

\* Lexer.__init__
LexerInit ==
    /\ pc = "new"
    /\ IF ConstructorRaises(input_text)
       THEN pc' = "raised" /\ UNCHANGED self_tokens
       ELSE pc' = "constructed" /\ self_tokens' = << >>
    /\ UNCHANGED << input_text, include_comments, token_match, tokens, line_num,
                    line_start, matches >>
    /\ UNCHANGED << cliVars, webVars >>

\* tokenize, up to the loop
TokenizeBegin ==
    /\ pc = "constructed"
    /\ pc' = "scan"
    /\ tokens' = StartLocals.tokens
    /\ line_num' = StartLocals.line_num
    /\ line_start' = StartLocals.line_start
    /\ token_match' = NextMatch(input_text, 0)
    /\ matches' = << >>
    /\ UNCHANGED << input_text, include_comments, self_tokens >>
    /\ UNCHANGED << cliVars, webVars >>

\* one iteration of the loop of tokenize that takes the given branch, then
\* the iterator's next match
LoopStep(branch) ==
    /\ pc = "scan"
    /\ token_match.start # NoMatch
    /\ Branch(token_match.kind,
              Slice(input_text, token_match.start, token_match.end)) = branch
    /\ \E r \in {Body([tokens |-> tokens, line_num |-> line_num,
                        line_start |-> line_start],
                       input_text, token_match, include_comments)} :
         /\ tokens' = r.tokens
         /\ line_num' = r.line_num
         /\ line_start' = r.line_start
         /\ matches' = Append(matches,
                [kind |-> token_match.kind, start |-> token_match.start,
                 end |-> token_match.end, line |-> line_num,
                 column |-> token_match.start - line_start + 1,
                 emitted |-> Len(r.tokens) > Len(tokens)])
    /\ token_match' = NextMatch(input_text, token_match.end)
    /\ UNCHANGED << input_text, include_comments, pc, self_tokens >>
    /\ UNCHANGED << cliVars, webVars >>

SkipWhitespace == pc = "scan" /\ LoopStep("whitespace")
CountNewline == pc = "scan" /\ LoopStep("newline")
EmitInvalid == pc = "scan" /\ LoopStep("invalid")
HandleMultiLineComment == pc = "scan" /\ LoopStep("multi_line_comment")
HandleMultiLineString == pc = "scan" /\ LoopStep("multi_line_string")
HandleOther == pc = "scan" /\ LoopStep("other")

\* tokenize, after the loop: self.tokens = tokens; return tokens
TokenizeReturn ==
    /\ pc = "scan"
    /\ token_match.start = NoMatch
    /\ self_tokens' = tokens
    /\ pc' = "done"
    /\ UNCHANGED << input_text, include_comments, token_match, tokens, line_num,
                    line_start, matches >>
    /\ UNCHANGED << cliVars, webVars >>

NextLex ==
    \/ LexerInit
    \/ TokenizeBegin
    \/ SkipWhitespace
    \/ CountNewline
    \/ EmitInvalid
    \/ HandleMultiLineComment
    \/ HandleMultiLineString
    \/ HandleOther
    \/ TokenizeReturn

\* every text of at most n characters of the alphabet
Texts(alphabet, n) == UNION {[1..k -> alphabet] : k \in 0..n}

\* the bytes of a file that decode as UTF-8 to the given text
TextFile(text) == [utf8 |-> TRUE, text |-> text]
\* the bytes of a file that do not decode as UTF-8
NotUtf8 == [utf8 |-> FALSE, text |-> << >>]
\* no file: a path that does not exist, an uploader that holds nothing
NoFile == [exists |-> FALSE, bytes |-> NotUtf8]
\* a file with the given bytes
File(bytes) == [exists |-> TRUE, bytes |-> bytes]

\* the results panel of the web page
Panel(kind, rows) == [kind |-> kind, rows |-> rows]
\* a section printed by the command-line tool
Section(name, rows) == [section |-> name, rows |-> rows]

\* st.session_state before the first run of the script
EmptySession == [k \in {} |-> << >>]

\* the parts of the state that a lexer run does not use
IdleCLI ==
    /\ args = [patterns |-> FALSE, comments |-> FALSE]
    /\ file = NoFile
    /\ exit_status = "none"
    /\ stdout = << >>
IdleWeb ==
    /\ session_state = EmptySession
    /\ uploaded_file = NoFile
    /\ code_input = << >>
    /\ panel = Panel("none", 0)
    /\ lexer_built = FALSE
IdleLexer ==
    /\ input_text = << >>
    /\ include_comments = FALSE
    /\ token_match = NoMoreMatches
    /\ tokens = << >>
    /\ line_num = 1
    /\ line_start = 0
    /\ matches = << >>
    /\ self_tokens = << >>

\* a lexer about to be constructed on one of the given texts
InitLex(inputs, settings) ==
    /\ input_text \in inputs
    /\ include_comments \in settings
    /\ pc = "new"
    /\ token_match = NoMoreMatches
    /\ tokens = << >>
    /\ line_num = 1
    /\ line_start = 0
    /\ matches = << >>
    /\ self_tokens = << >>
    /\ IdleCLI
    /\ IdleWeb

Samples ==
    { PresetHello, PresetMath, PresetVars, PresetLoop, PresetFunc, PresetClear,
      SampleComment, SampleMultiLineComment, SamplePowerAssign,
      SampleNullCoalescing, SampleNotIn, SampleTypeInt, SampleTripleQuoted,
      SampleQuotedNewline, SampleTrailingSpace, SampleIndentedBlank,
      SampleInvalid }

MaxLenCover == 4
CoverAlphabet == {"a", " ", "\n", "#", "~", "$"}

Init == InitLex(Texts(CoverAlphabet, MaxLenCover) \cup Samples, BOOLEAN)
Next == NextLex
Spec == Init /\ [][Next]_vars

----------------------------------------------------------------------------
(* The command-line entry point, main.                                     *)

\* the printed source listing: one row per element of code.split("\n")
Listing(code) == Section("listing", count_lines(code) + 1)

\* the file does not exist: the message, then sys.exit(1)
MainNotFound ==
    /\ pc = "cli"
    /\ ~file.exists
    /\ stdout' = << Section("Error: File not found", 0) >>
    /\ exit_status' = 1
    /\ pc' = "exited"
    /\ UNCHANGED << args, file, webVars >>
    /\ UNCHANGED << input_text, include_comments, token_match, tokens,
                    line_num, line_start, matches, self_tokens >>

\* read_text raises UnicodeDecodeError: except Exception, then sys.exit(1)
MainReadError ==
    /\ pc = "cli"
    /\ file.exists
    /\ ~file.bytes.utf8
    /\ stdout' = << Section("Error: exception", 0) >>
    /\ exit_status' = 1
    /\ pc' = "exited"
    /\ UNCHANGED << args, file, webVars >>
    /\ UNCHANGED << input_text, include_comments, token_match, tokens,
                    line_num, line_start, matches, self_tokens >>

\* the listing is printed, then Lexer(code, ...) raises: except Exception,
\* then sys.exit(1)
MainLexerError ==
    /\ pc = "cli"
    /\ file.exists
    /\ file.bytes.utf8
    /\ ConstructorRaises(file.bytes.text)
    /\ stdout' = << Listing(file.bytes.text), Section("Error: exception", 0) >>
    /\ exit_status' = 1
    /\ pc' = "exited"
    /\ UNCHANGED << args, file, webVars >>
    /\ UNCHANGED << input_text, include_comments, token_match, tokens,
                    line_num, line_start, matches, self_tokens >>

\* the listing, the token table and, with --patterns, the catalog; the
\* process then ends with status 0
MainOk ==
    /\ pc = "cli"
    /\ file.exists
    /\ file.bytes.utf8
    /\ ~ConstructorRaises(file.bytes.text)
    /\ input_text' = file.bytes.text
    /\ include_comments' = args.comments
    /\ \E toks \in {Tokenize(file.bytes.text, args.comments)} :
         /\ self_tokens' = toks
         /\ stdout' = << Listing(file.bytes.text), Section("table", Len(toks)) >>
                      \o (IF args.patterns
                          THEN << Section("patterns", Len(patterns)) >>
                          ELSE << >>)
    /\ exit_status' = 0
    /\ pc' = "exited"
    /\ UNCHANGED << args, file, webVars >>
    /\ UNCHANGED << token_match, tokens, line_num, line_start, matches >>

NextCLI ==
    \/ MainNotFound
    \/ MainReadError
    \/ MainLexerError
    \/ MainOk

MaxLenFile == 2

\* the files main may be pointed at
Files ==
    {NoFile, File(NotUtf8)}
    \cup {File(TextFile(t)) : t \in Samples \cup Texts(CoverAlphabet, MaxLenFile)}

InitCLI ==
    /\ pc = "cli"
    /\ args \in [patterns : BOOLEAN, comments : BOOLEAN]
    /\ file \in Files
    /\ exit_status = "none"
    /\ stdout = << >>
    /\ IdleLexer
    /\ IdleWeb

SpecCLI == InitCLI /\ [][NextCLI]_vars

----------------------------------------------------------------------------
(* The web application: one run of the script of main.py per event.        *)

\* the texts a user may submit from the editor
EditorTexts == { << >>, << " " >>, << "\n", "\t" >>, << "x" >>, SampleComment }

\* the bytes a user may upload
Uploads ==
    { NotUtf8, TextFile(<< >>), TextFile(<< " ", "\n" >>),
      TextFile(SampleTypeInt), TextFile(SampleMultiLineComment) }

\* the snippets set by the six preset buttons, in column order
Presets ==
    << PresetHello, PresetMath, PresetVars, PresetLoop, PresetFunc, PresetClear >>

\* the results panel for a token list: the table, or the message shown
\* when the data frame is empty
ShowTokens(toks) ==
    IF toks # << >>
    THEN Panel("table", Len(toks))
    ELSE Panel("info: No tokens found in the input code.", 0)

\* the "Tokenize handler": the results panel for the text the editor returns
Results(text) ==
    IF text # << >>
    THEN ShowTokens(Tokenize(text, TRUE))
    ELSE Panel("error: Please enter some code or upload a file first.", 0)

\* st_ace: a submitted text is returned; otherwise a changed value argument
\* resets the editor to it, and an unchanged one leaves the editor's text
Editor(submitted, value, old_state) ==
    IF submitted.made THEN submitted.text
    ELSE IF "code_content" \in DOMAIN old_state /\ old_state.code_content = value
         THEN code_input
         ELSE value

NoSubmit == [made |-> FALSE, text |-> << >>]
NoButton == 0

\* one run of the script: the uploader holds upload, the preset button
\* number button was clicked (NoButton: none) and the editor submitted
\* the text submitted (NoSubmit: nothing)
Rerun(upload, button, submitted) ==
    LET defaulted ==
            IF "code_content" \notin DOMAIN session_state
            THEN PresetHello
            ELSE session_state.code_content
        after_upload ==
            IF upload.exists THEN upload.bytes.text ELSE defaulted
        content ==
            IF button # NoButton THEN Presets[button] ELSE after_upload
    IN  /\ uploaded_file' = upload
        /\ IF upload.exists /\ ~upload.bytes.utf8
           THEN \* decode raises: the run stops before the editor is drawn
                /\ session_state' = [code_content |-> defaulted]
                /\ panel' = Panel("exception", 0)
                /\ lexer_built' = FALSE
                /\ UNCHANGED code_input
           ELSE /\ session_state' = [code_content |-> content]
                /\ \E text \in {Editor(submitted, content, session_state)} :
                     /\ code_input' = text
                     /\ panel' = Results(text)
                     /\ lexer_built' = (text # << >>)
        /\ UNCHANGED pc
        /\ UNCHANGED << input_text, include_comments, token_match, tokens,
                        line_num, line_start, matches, self_tokens >>
        /\ UNCHANGED cliVars

\* the page is opened, or rerun without any input
Load == pc = "web" /\ Rerun(uploaded_file, NoButton, NoSubmit)

\* the user submits the editor's text
SubmitEditor ==
    /\ pc = "web"
    /\ \E t \in EditorTexts :
         Rerun(uploaded_file, NoButton, [made |-> TRUE, text |-> t])

\* the user uploads a .worm file
UploadFile ==
    /\ pc = "web"
    /\ \E f \in Uploads : Rerun(File(f), NoButton, NoSubmit)

\* the user removes the uploaded file
RemoveFile ==
    /\ pc = "web"
    /\ uploaded_file.exists
    /\ Rerun(NoFile, NoButton, NoSubmit)

\* the user clicks one of the preset buttons
ClickPreset ==
    /\ pc = "web"
    /\ \E b \in 1..Len(Presets) : Rerun(uploaded_file, b, NoSubmit)

NextWeb ==
    \/ Load
    \/ SubmitEditor
    \/ UploadFile
    \/ RemoveFile
    \/ ClickPreset

InitWeb ==
    /\ pc = "web"
    /\ IdleWeb
    /\ IdleLexer
    /\ IdleCLI

SpecWeb == InitWeb /\ [][NextWeb]_vars

----------------------------------------------------------------------------
(* Vocabulary of the properties of a lexer run.                            *)

\* the text of the i-th match
MatchText(i) == Slice(input_text, matches[i].start, matches[i].end)

\* the token the i-th match was emitted as
TokenOf(i) == tokens[Cardinality({j \in 1..i : matches[j].emitted})]

\* the LFs in the text of the i-th match
NewlinesIn(i) ==
    Cardinality({q \in (matches[i].start + 1)..matches[i].end :
                     input_text[q] = "\n"})

\* the offset just after the last LF in the text of the i-th match
AfterLastNewline(i) ==
    CHOOSE e \in (matches[i].start + 1)..matches[i].end :
        /\ input_text[e] = "\n"
        /\ \A q \in (e + 1)..matches[i].end : input_text[q] # "\n"

\* the line counter and the line start once the i-th match has been handled
LineAfter(i) ==
    IF i < Len(matches) THEN matches[i + 1].line ELSE line_num
LineStartAfter(i) ==
    IF i < Len(matches)
    THEN matches[i + 1].start - matches[i + 1].column + 1
    ELSE line_start

\* the i-th match advanced the line counter by its LFs and moved the line
\* start to just after its last LF
AdvancedByNewlines(i) ==
    /\ LineAfter(i) = matches[i].line + NewlinesIn(i)
    /\ NewlinesIn(i) > 0 => LineStartAfter(i) = AfterLastNewline(i)

\* the matches so far are contiguous from offset 0, none of them empty
Contiguous ==
    /\ \A i \in 1..Len(matches) :
          /\ matches[i].start < matches[i].end
          /\ matches[i].start = IF i = 1 THEN 0 ELSE matches[i - 1].end
    /\ pc = "done" =>
          IF matches = << >> THEN input_text = << >>
          ELSE matches[Len(matches)].end = Len(input_text)

\* the emitted tokens' texts in order, with the texts of the discarded
\* matches of the given kinds put back where they were
RECURSIVE Rebuilt(_, _)
Rebuilt(i, kinds) ==
    IF i = 0 THEN << >>
    ELSE Rebuilt(i - 1, kinds)
         \o (IF matches[i].emitted THEN TokenOf(i).value
             ELSE IF matches[i].kind \in kinds THEN MatchText(i)
             ELSE << >>)

\* the part of the input the matches so far cover
Covered ==
    IF matches = << >> THEN << >>
    ELSE SubSeq(input_text, 1, matches[Len(matches)].end)

Scanning == pc \in {"scan", "done"}

\* C1 as stated: the matches are contiguous and cover the input, and the
\* emitted tokens' texts with the discarded whitespace and newline matches
\* put back give the input again.
C1_Original ==
    Scanning =>
        /\ Contiguous
        /\ Rebuilt(Len(matches), {"WHITESPACE", "NEWLINE"}) = Covered

\* the kinds of match that tokenize discards
Discarded ==
    {"WHITESPACE", "NEWLINE"}
    \cup (IF include_comments THEN {}
          ELSE {"SINGLE_LINE_COMMENT", "MULTI_LINE_COMMENT"})

\* C1: the matches are contiguous and cover the input, and the
\* emitted tokens' texts with the discarded matches put back (whitespace,
\* newlines and, when comments are not included, the comments) give the
\* input again: no character is lost or duplicated.
C1_Coverage ==
    Scanning =>
        /\ Contiguous
        /\ Len(tokens) = Cardinality({i \in 1..Len(matches) : matches[i].emitted})
        /\ Rebuilt(Len(matches), Discarded) = Covered
        /\ \A i \in 1..Len(matches) :
              ~matches[i].emitted => matches[i].kind \in Discarded

\* a finished run that discarded a comment and whitespace and emitted a token
C1_Witness ==
    /\ pc = "done"
    /\ \E i, j, k \in 1..Len(matches) :
          /\ matches[i].kind = "SINGLE_LINE_COMMENT" /\ ~matches[i].emitted
          /\ matches[j].kind = "WHITESPACE"
          /\ matches[k].kind = "INVALID" /\ matches[k].emitted

\* C2: constructing a Lexer and tokenizing never raises; every character no
\* catalog rule matches gives one INVALID token holding that character, with
\* or without comments, and the scan goes on to the end of the input.
C2_NeverRaises ==
    /\ pc # "raised"
    /\ Scanning =>
          \A i \in 1..Len(matches) :
              matches[i].kind = "INVALID" =>
                  /\ matches[i].emitted
                  /\ TokenOf(i).type = "INVALID"
                  /\ TokenOf(i).value = << input_text[matches[i].start + 1] >>
    /\ pc = "done" /\ matches # << >> =>
          matches[Len(matches)].end = Len(input_text)

\* the 1-based index q holds the last character of a line terminator:
\* an LF (alone or ending CRLF) or a CR that no LF follows
EndsTerminator(s, q) ==
    \/ s[q] = "\n"
    \/ s[q] = "\r" /\ ~(q < Len(s) /\ s[q + 1] = "\n")

\* the line terminators that end at or before offset p
TerminatorsBefore(s, p) == {q \in 1..p : EndsTerminator(s, q)}

\* the offset just after the last line terminator before offset p
TrueLineStart(s, p) ==
    IF TerminatorsBefore(s, p) = {} THEN 0
    ELSE CHOOSE q \in TerminatorsBefore(s, p) :
             \A r \in TerminatorsBefore(s, p) : r <= q

\* C3: every token's line is 1 plus the number of line terminators before
\* its start, and its column is its start minus the offset just after the
\* last of them, plus 1.
C3_LineAndColumn ==
    Scanning =>
        \A i \in 1..Len(matches) :
            matches[i].emitted =>
                /\ TokenOf(i).line =
                       1 + Cardinality(TerminatorsBefore(input_text, matches[i].start))
                /\ TokenOf(i).column =
                       matches[i].start - TrueLineStart(input_text, matches[i].start) + 1

\* the offset of the first LF at or after offset p, Len(s) when there is none
EndOfLine(s, p) ==
    CHOOSE q \in p..Len(s) :
        /\ q = Len(s) \/ s[q + 1] = "\n"
        /\ \A r \in p..(q - 1) : s[r + 1] # "\n"

\* the tokens of "# hello\nx = 1" after the comment
AfterSampleComment ==
    << Token("IDENTIFIER", << "x" >>, 2, 1),
       Token("ASSIGN", << "=" >>, 2, 3),
       Token("INTEGER", << "1" >>, 2, 5) >>

\* the end of the text C4 gives a comment token: the end of the line
UpToEndOfLine(i) == EndOfLine(input_text, matches[i].start)
\* the end of the text the token has: past the LF that ends the line
ThroughEndOfLine(i) ==
    IF UpToEndOfLine(i) < Len(input_text)
    THEN UpToEndOfLine(i) + 1
    ELSE UpToEndOfLine(i)

\* a single-line comment gives a token exactly when comments are included,
\* whose text ends at the end of the line or, with_newline, past its LF; a
\* token right after the comment is on the next line, and the sample's
\* tokens after the comment are x, = and 1 on line 2
CommentTokens(with_newline) ==
    /\ \A i \in 1..Len(matches) :
          matches[i].kind = "SINGLE_LINE_COMMENT" =>
              /\ matches[i].emitted <=> include_comments
              /\ matches[i].emitted =>
                     /\ TokenOf(i).type = "SINGLE_LINE_COMMENT"
                     /\ TokenOf(i).value =
                            Slice(input_text, matches[i].start,
                                  IF with_newline THEN ThroughEndOfLine(i)
                                  ELSE UpToEndOfLine(i))
              /\ i < Len(matches) /\ matches[i + 1].emitted =>
                     /\ TokenOf(i + 1).line = matches[i].line + 1
                     /\ TokenOf(i + 1).column = 1
    /\ pc = "done" /\ input_text = SampleComment =>
          /\ Len(tokens) = IF include_comments THEN 4 ELSE 3
          /\ SubSeq(tokens, Len(tokens) - 2, Len(tokens)) = AfterSampleComment

\* C4 as stated: a single-line comment gives no token without comments and
\* one SINGLE_LINE_COMMENT token with them, whose text is the # and the
\* characters up to the end of the line; the tokens after it are on the
\* next line.
C4_Original == Scanning => CommentTokens(FALSE)

\* C4: a single-line comment gives no token without comments and one
\* SINGLE_LINE_COMMENT token with them, whose text is the # and the
\* characters up to and including the LF that ends the line (up to the end
\* of the input when no LF follows); the tokens after it are on the next
\* line.
C4_SingleLineComment == Scanning => CommentTokens(TRUE)

\* a finished run with comments included that emitted a comment ended by an
\* LF and a token right after it
C4_Witness ==
    /\ pc = "done"
    /\ include_comments
    /\ \E i \in 1..Len(matches) :
          /\ matches[i].kind = "SINGLE_LINE_COMMENT"
          /\ input_text[matches[i].end] = "\n"
          /\ i < Len(matches) /\ matches[i + 1].emitted

\* C10: every emitted lexeme with k embedded LFs advances the line counter
\* by k and moves the line start to just after its last LF, a triple-quoted
\* string exactly as a quoted one.
C10_MultiLineLexemes ==
    Scanning =>
        \A i \in 1..Len(matches) :
            matches[i].emitted /\ NewlinesIn(i) > 0 => AdvancedByNewlines(i)

----------------------------------------------------------------------------
(* Multi-line comments.                                                    *)

MaxLenComment == 7
CommentAlphabet == {"~", "\n", "a"}

InitComment ==
    InitLex(Texts(CommentAlphabet, MaxLenComment) \cup Samples, BOOLEAN)
SpecComment == InitComment /\ [][NextLex]_vars

\* the tokens that are not comments
IsCode(t) == t.type \notin {"SINGLE_LINE_COMMENT", "MULTI_LINE_COMMENT"}
CodeTokens(toks) == SelectSeq(toks, IsCode)

\* C5: a multi-line comment with k embedded LFs advances the line counter
\* by k and moves the line start past its last LF, with or without comments
\* included; a token that follows the comment and one newline is on the
\* comment's line plus k plus 1, and the code tokens are the same, lines and
\* columns included, with comments included as with comments excluded.
C5_MultiLineComment ==
    /\ Scanning =>
          \A i \in 1..Len(matches) :
              matches[i].kind = "MULTI_LINE_COMMENT" =>
                  /\ AdvancedByNewlines(i)
                  /\ NewlinesIn(i) = 0 =>
                         LineStartAfter(i) =
                             matches[i].start - matches[i].column + 1
                  /\ matches[i].emitted <=> include_comments
                  /\ /\ i + 2 <= Len(matches)
                     /\ matches[i + 1].kind = "NEWLINE"
                     /\ matches[i + 2].emitted
                     => /\ TokenOf(i + 2).line =
                               matches[i].line + NewlinesIn(i) + 1
                        /\ TokenOf(i + 2).column = 1
    /\ pc = "done" =>
          CodeTokens(tokens) =
              CodeTokens(Tokenize(input_text, ~include_comments))

\* a finished run without comments over a comment with two embedded LFs,
\* a newline and a token
C5_Witness ==
    /\ pc = "done"
    /\ ~include_comments
    /\ \E i \in 1..Len(matches) :
          /\ matches[i].kind = "MULTI_LINE_COMMENT"
          /\ NewlinesIn(i) >= 2
          /\ i + 2 <= Len(matches)
          /\ matches[i + 1].kind = "NEWLINE"
          /\ matches[i + 2].emitted

----------------------------------------------------------------------------
(* Operators.                                                              *)

MaxLenOperators == 3
OperatorAlphabet == {"-", ">", "=", "<", "!", "+", "*", "/", "%", "?", "1"}

InitOperators ==
    InitLex(Texts(OperatorAlphabet, MaxLenOperators) \cup Samples, {FALSE})
SpecOperators == InitOperators /\ [][NextLex]_vars

\* the multi-character operators C6 lists, each with its kind
MultiCharOperators ==
    { Literal("ARROW", << "-", ">" >>),
      Literal("LAMBDA_ARROW", << "=", ">" >>),
      Literal("BITW_LEFT_SHIFT", << "<", "<" >>),
      Literal("BITW_RIGHT_SHIFT", << ">", ">" >>),
      Literal("EQUALS", << "=", "=" >>),
      Literal("NOT_EQUALS", << "!", "=" >>),
      Literal("LESS_EQUAL", << "<", "=" >>),
      Literal("GREATER_EQUAL", << ">", "=" >>),
      Literal("PLUS_ASSIGN", << "+", "=" >>),
      Literal("MINUS_ASSIGN", << "-", "=" >>),
      Literal("POWER_ASSIGN", << "*", "*", "=" >>),
      Literal("FLOOR_DIV_ASSIGN", << "/", "/", "=" >>),
      Literal("MULT_ASSIGN", << "*", "=" >>),
      Literal("DIV_ASSIGN", << "/", "=" >>),
      Literal("MOD_ASSIGN", << "%", "=" >>),
      Literal("POWER", << "*", "*" >>),
      Literal("FLOOR_DIV", << "/", "/" >>),
      Literal("NULL_COALESCING", << "?", "?" >>) }

\* a longer operator of the catalog than op begins at offset p
LongerOperatorAt(op, p) ==
    \E i \in 1..Len(patterns) :
        /\ patterns[i].form = "literal"
        /\ Len(patterns[i].text) > Len(op.text)
        /\ StartsWith(input_text, p, patterns[i].text)

\* C6: where the scan reaches a listed multi-character operator, and no
\* longer operator of the catalog begins there, the operator is emitted as
\* one token of its own kind.
C6_OperatorsNotSplit ==
    Scanning =>
        \A i \in 1..Len(matches) : \A op \in MultiCharOperators :
            /\ StartsWith(input_text, matches[i].start, op.text)
            /\ ~LongerOperatorAt(op, matches[i].start)
            => /\ matches[i].kind = op.name
               /\ matches[i].end = matches[i].start + Len(op.text)
               /\ matches[i].emitted
               /\ TokenOf(i).type = op.name
               /\ TokenOf(i).value = op.text

\* a finished run that emitted **= or //= as one token
C6_Witness ==
    /\ pc = "done"
    /\ \E i \in 1..Len(matches) :
          /\ matches[i].kind \in {"POWER_ASSIGN", "FLOOR_DIV_ASSIGN"}
          /\ matches[i].emitted
          /\ Len(TokenOf(i).value) = 3

----------------------------------------------------------------------------
(* Keywords and identifiers.                                               *)

\* the kinds of the keyword, literal and logical-operator rules
KeywordKinds ==
    { "IF", "ELSEIF", "ELSE", "WHILE", "FOR", "DEFINE", "RETURN", "CLASS",
      "IMPORT", "FROM", "AS", "TRY", "EXCEPT", "FINALLY", "RAISE", "WITH",
      "BREAK", "CONTINUE", "IN", "IS", "TRUE", "FALSE", "NULL", "NOT",
      "AND", "OR" }

\* those rules, each with its spelling
Keywords ==
    {patterns[i] : i \in {j \in 1..Len(patterns) :
                              patterns[j].name \in KeywordKinds}}

MaxPieces == 2
Lexicon ==
    {kw.text : kw \in Keywords}
    \cup { << "y" >>, << "1" >>, << "_" >>, << " " >>, << "é" >> }

\* every text made of at most n pieces of the lexicon
RECURSIVE Phrases(_)
Phrases(n) ==
    IF n = 0 THEN { << >> }
    ELSE LET shorter == Phrases(n - 1)
         IN  shorter \cup {t \o w : t \in shorter, w \in Lexicon}

\* "if iffy"
SampleIffy == << "i", "f", " ", "i", "f", "f", "y" >>

InitWords == InitLex(Phrases(MaxPieces) \cup Samples \cup {SampleIffy}, {FALSE})
SpecWords == InitWords /\ [][NextLex]_vars

\* no word character on the left of offset p, none on the right of offset q
WordStartsAt(p) == p = 0 \/ ~IsWord(input_text[p])
WordEndsAt(q) == q = Len(input_text) \/ ~IsWord(input_text[q + 1])

\* the word that starts at offset p: the word characters from p on
WordAt(p) == Slice(input_text, p, RunEnd(input_text, p, "\\w"))

\* the keywords spelled word, and those a longer word contains
Spelled(word) == {kw \in Keywords : kw.text = word}
ContainedIn(word) ==
    {kw \in Keywords :
        /\ Len(kw.text) < Len(word)
        /\ \E a \in 0..(Len(word) - Len(kw.text)) : StartsWith(word, a, kw.text)}

\* word is longer than a keyword's spelling, contains it, begins like an
\* identifier and is not itself spelled like a keyword
IsLongerWord(word) ==
    /\ word # << >>
    /\ IsIdStart(word[1])
    /\ Spelled(word) = {}
    /\ ContainedIn(word) # {}

\* word is made of ASCII letters, digits and underscores
IsAscii(word) == \A a \in 1..Len(word) : IsIdChar(word[a])

\* "not in"
NotInText == << "n", "o", "t", " ", "i", "n" >>

\* "not", one space and a whole word "in" start at offset p
NotInAt(p) ==
    /\ StartsWith(input_text, p, NotInText)
    /\ WordEndsAt(p + Len(NotInText))

\* match i is one IDENTIFIER token spelled word
EmittedAsIdentifier(i, word) ==
    /\ matches[i].kind = "IDENTIFIER"
    /\ matches[i].end = matches[i].start + Len(word)
    /\ matches[i].emitted
    /\ TokenOf(i).type = "IDENTIFIER"
    /\ TokenOf(i).value = word

\* match i is one token of the keyword's kind
EmittedAs(i, kw) ==
    /\ matches[i].kind = kw.name
    /\ matches[i].end = matches[i].start + Len(kw.text)
    /\ matches[i].emitted
    /\ TokenOf(i).type = kw.name
    /\ TokenOf(i).value = kw.text

\* match i is one NOTIN token
EmittedAsNotIn(i) ==
    /\ matches[i].kind = "NOTIN"
    /\ matches[i].emitted
    /\ TokenOf(i).type = "NOTIN"
    /\ TokenOf(i).value = NotInText

NoKeywordIdentifier ==
    \A n \in 1..Len(tokens) :
        tokens[n].type = "IDENTIFIER" => Spelled(tokens[n].value) = {}

\* the matches that start a word
WordMatches == {i \in 1..Len(matches) : WordStartsAt(matches[i].start)}

----------------------------------------------------------------------------
(* The command-line tool and the web page.                                 *)

Printed(name) == \E n \in 1..Len(stdout) : stdout[n].section = name

\* C8: a run on a path that does not exist prints the not-found message and
\* ends with status 1 without a listing or a table; a run on an existing
\* file that reads as UTF-8 text, the empty file included, ends with status
\* 0 and prints a table with one row per token tokenize returns.
C8_CommandLine ==
    pc = "exited" =>
        /\ ~file.exists =>
               /\ exit_status = 1
               /\ Printed("Error: File not found")
               /\ ~Printed("listing")
               /\ ~Printed("table")
        /\ file.exists /\ file.bytes.utf8 =>
               /\ exit_status = 0
               /\ \E n \in 1..Len(stdout) :
                      stdout[n] =
                          Section("table",
                                  Len(Tokenize(file.bytes.text, args.comments)))

\* a run on a file that holds text has ended
C8_Witness ==
    /\ pc = "exited"
    /\ file.exists
    /\ file.bytes.utf8
    /\ file.bytes.text # << >>
    /\ Printed("table")

Rendered == pc = "web" /\ panel.kind # "none"

\* C9: after every run of the page the results panel shows exactly one of
\* the error (iff the editor's text is empty), the info (iff the text is not
\* empty and has no tokens) and the table (otherwise); a Lexer is built only
\* when the text is not empty; the default snippet gives a table with rows.
C9_ThreeOutcomes ==
    Rendered =>
        /\ panel.kind \in
               { "error: Please enter some code or upload a file first.",
                 "info: No tokens found in the input code.",
                 "table" }
        /\ panel.kind = "error: Please enter some code or upload a file first."
               <=> code_input = << >>
        /\ panel.kind = "info: No tokens found in the input code."
               <=> /\ code_input # << >>
                   /\ Tokenize(code_input, TRUE) = << >>
        /\ panel.kind = "table" => panel.rows = Len(Tokenize(code_input, TRUE))
        /\ lexer_built => code_input # << >>
        /\ code_input = PresetHello => panel.kind = "table" /\ panel.rows > 0

\* a run of the page showed the info for a text that is not empty
C9_Witness ==
    /\ Rendered
    /\ code_input # << >>
    /\ panel.kind = "info: No tokens found in the input code."

====
